---- MODULE Spec2Model ----
(***************************************************************************)
(* Temporal mask stabilization (src/src/stabilization.py): the four        *)
(* smoothing filters of MaskStabilizer, modelled over exact extended       *)
(* rationals and small n-dimensional arrays with numpy's shape rules.      *)
(*                                                                         *)
(* Numbers.  A value is a record [n, d]: the rational n/d in lowest terms  *)
(* with d > 0, or d = 0 for the IEEE specials (n = 1: +inf, n = -1: -inf,  *)
(* n = 0: nan).  Rounding to float32/float64 is not modelled: every        *)
(* statement below is about the exact value the code's formula denotes.    *)
(*                                                                         *)
(* Arrays.  An ndarray is [dtype, shape, data]: data maps every 0-based    *)
(* index tuple of the shape to a value.  A Python list of arrays is a      *)
(* sequence of such records.                                               *)
(***************************************************************************)
EXTENDS Integers, Sequences, FiniteSets, TLC

VARIABLES
    masks,      \* the caller's list of masks (the argument `masks`)
    call,       \* the call made: method name and its keyword parameters
    pc,         \* "idle" before the call, then "returned" or "raised"
    result,     \* the returned list smoothed_masks (<<>> unless returned)
    exc,        \* the exception type that left the call ("none" if none)
    frames,     \* output frames computed by the time the call ended
    jobs,       \* main.py: the in-memory job table's entry for one job id
    disk,       \* main.py: that job's state.json, as save_job_state wrote it
    tasks,      \* main.py: the job's background tasks, queued or running
    response    \* main.py: the last HTTP response (endpoint and status code)

server == <<jobs, disk, tasks, response>>

vars == <<masks, call, pc, result, exc, frames, jobs, disk, tasks, response>>

(***************************************************************************)
(* The web service of main.py before any request: no job in memory, no     *)
(* state.json on disk, no background task, no response sent.               *)
(***************************************************************************)
NoJob == [status |-> "none", keys |-> {}, message |-> ""]

NoResponse == [endpoint |-> "none", code |-> 0]

ServerIdle ==
    /\ jobs = NoJob
    /\ disk = NoJob
    /\ tasks = <<>>
    /\ response = NoResponse

(***************************************************************************)
(* Bounds of the model.                                                    *)
(***************************************************************************)
MaxFrames == 4
MaxWindow == 5

(***************************************************************************)
(* Exact arithmetic on extended rationals.                                 *)
(***************************************************************************)
Abs(x) == IF x < 0 THEN -x ELSE x

Sign(x) == IF x < 0 THEN -1 ELSE IF x > 0 THEN 1 ELSE 0

Max(a, b) == IF a < b THEN b ELSE a

Min(a, b) == IF a < b THEN a ELSE b

RECURSIVE GCD(_, _)
GCD(a, b) == IF b = 0 THEN a ELSE GCD(b, a % b)

Frac(n, d) ==
    IF d = 0 THEN [n |-> Sign(n), d |-> 0]
    ELSE LET g == GCD(Abs(n), Abs(d))
             s == Sign(d)
         IN  [n |-> (s * n) \div g, d |-> (s * d) \div g]

NaN == [n |-> 0, d |-> 0]

Zero == [n |-> 0, d |-> 1]

One == [n |-> 1, d |-> 1]

IsNaN(a) == a.d = 0 /\ a.n = 0

IsFinite(a) == a.d > 0

FNeg(a) == [n |-> -a.n, d |-> a.d]

FAdd(a, b) ==
    IF a.d = 0 /\ b.d = 0 THEN (IF a = b THEN a ELSE NaN)
    ELSE Frac(a.n * b.d + b.n * a.d, a.d * b.d)

FSub(a, b) == FAdd(a, FNeg(b))

FMul(a, b) == Frac(a.n * b.n, a.d * b.d)

\* numpy's true division: x/0 is +-inf, 0/0 is nan (a warning, no exception).
FDiv(a, b) == Frac(a.n * b.d, a.d * b.n)

FAbs(a) == [n |-> Abs(a.n), d |-> a.d]

\* a/b < c/d for b, d > 0, by the Euclidean expansion (no large products).
RECURSIVE FracLt(_, _, _, _)
FracLt(a, b, c, d) ==
    LET q1 == a \div b
        q2 == c \div d
        r1 == a % b
        r2 == c % d
    IN  IF q1 # q2 THEN q1 < q2
        ELSE IF r2 = 0 THEN FALSE
        ELSE IF r1 = 0 THEN TRUE
        ELSE FracLt(d, r2, b, r1)

FLt(a, b) ==
    IF a.d = 0 \/ b.d = 0 THEN a.n * b.d < b.n * a.d
    ELSE FracLt(a.n, a.d, b.n, b.d)

FLe(a, b) == ~IsNaN(a) /\ ~IsNaN(b) /\ ~FLt(b, a)

\* np.maximum: nan propagates.
FMaximum(a, b) ==
    IF IsNaN(a) \/ IsNaN(b) THEN NaN ELSE IF FLt(a, b) THEN b ELSE a

RECURSIVE SumSeq(_)
SumSeq(s) == IF s = <<>> THEN Zero ELSE FAdd(Head(s), SumSeq(Tail(s)))

\* np.exp(x) for x <= 0.  exp has no rational value off 0; it is modelled by
\* the rational kernel 1/(1 - x), which shares what the filters use of it:
\* exp(0) = 1, exp(-inf) = 0, exp(nan) = nan, and 0 < exp(x) < 1, strictly
\* increasing, for finite x < 0.
NpExp(x) ==
    IF IsNaN(x) THEN NaN
    ELSE IF x.d = 0 THEN (IF x.n < 0 THEN Zero ELSE x)
    ELSE FDiv(One, FSub(One, x))

(***************************************************************************)
(* n-dimensional arrays.                                                   *)
(***************************************************************************)
RECURSIVE IdxSet(_)
IdxSet(shape) ==
    IF shape = <<>> THEN {<<>>}
    ELSE {<<a>> \o t : a \in 0 .. (Head(shape) - 1), t \in IdxSet(Tail(shape))}

\* elementwise scalar * arr (a Python float times an array keeps the dtype
\* of a float array)
ScalarMul(c, arr) ==
    [dtype |-> arr.dtype, shape |-> arr.shape,
     data |-> [idx \in IdxSet(arr.shape) |-> FMul(c, arr.data[idx])]]

\* ndarray.astype(dtype): a new array; exact values are kept, the tag changes
astype(arr, dtype) ==
    [dtype |-> dtype, shape |-> arr.shape,
     data |-> [idx \in IdxSet(arr.shape) |-> arr.data[idx]]]

\* (variant) the array itself handed on in place of a copy
copy_alias(arr) == arr

\* ndarray.copy(): a new array with the same dtype, shape and values
copy(arr) ==
    [dtype |-> arr.dtype, shape |-> arr.shape,
     data |-> [idx \in IdxSet(arr.shape) |-> arr.data[idx]]]

\* np.array(list of equal-shaped arrays): a new leading axis
np_array(list) ==
    IF list = <<>>
    THEN [dtype |-> "float64", shape |-> <<0>>, data |-> [idx \in {} |-> Zero]]
    ELSE LET shape == <<Len(list)>> \o list[1].shape
         IN  [dtype |-> list[1].dtype, shape |-> shape,
              data |-> [idx \in IdxSet(shape) |->
                           list[idx[1] + 1].data[Tail(idx)]]]

\* the values along axis 0 at the remaining index idx, in axis order
Axis0(arr, idx) == [a \in 1 .. arr.shape[1] |-> arr.data[<<a - 1>> \o idx]]

\* np.sum(arr, axis=0)
np_sum0(arr) ==
    [dtype |-> arr.dtype, shape |-> Tail(arr.shape),
     data |-> [idx \in IdxSet(Tail(arr.shape)) |-> SumSeq(Axis0(arr, idx))]]

\* np.sum(arr, axis=0, keepdims=True)
np_sum0_keepdims(arr) ==
    LET shape == <<1>> \o Tail(arr.shape)
    IN  [dtype |-> arr.dtype, shape |-> shape,
         data |-> [idx \in IdxSet(shape) |-> SumSeq(Axis0(arr, Tail(idx)))]]

\* the dtype of a reduction that yields floats: a float array keeps its dtype,
\* an integer array gives float64
FloatResult(dtype) == IF dtype \in {"float32", "float64"} THEN dtype ELSE "float64"

\* np.mean(arr, axis=0): the sum along axis 0 over the number of entries
np_mean0(arr) ==
    [dtype |-> FloatResult(arr.dtype), shape |-> Tail(arr.shape),
     data |-> [idx \in IdxSet(Tail(arr.shape)) |->
                  FDiv(SumSeq(Axis0(arr, idx)), Frac(arr.shape[1], 1))]]

\* arr[0]
Index0(arr) ==
    [dtype |-> arr.dtype, shape |-> Tail(arr.shape),
     data |-> [idx \in IdxSet(Tail(arr.shape)) |-> arr.data[<<0>> \o idx]]]

\* arr[:, None, None]: two axes of length 1 inserted after the first axis
ColonNoneNone(arr) ==
    LET shape == <<arr.shape[1], 1, 1>> \o Tail(arr.shape)
    IN  [dtype |-> arr.dtype, shape |-> shape,
         data |-> [idx \in IdxSet(shape) |->
                      arr.data[<<idx[1]>> \o SubSeq(idx, 4, Len(idx))]]]

\* numpy broadcasting: shapes are aligned at their last axes, an axis of
\* length 1 (or a missing leading axis) is stretched to the other's length.
PadShape(s, r) ==
    [k \in 1 .. r |-> IF k <= r - Len(s) THEN 1 ELSE s[k - (r - Len(s))]]

BroadcastShape(s1, s2) ==
    LET r  == Max(Len(s1), Len(s2))
        p1 == PadShape(s1, r)
        p2 == PadShape(s2, r)
    IN  [k \in 1 .. r |-> IF p1[k] = 1 THEN p2[k] ELSE p1[k]]

\* the index into an operand of shape s for the result index idx
Proj(idx, s) ==
    LET off == Len(idx) - Len(s)
    IN  [k \in 1 .. Len(s) |-> IF s[k] = 1 THEN 0 ELSE idx[off + k]]

\* a * b and a / b on arrays, with broadcasting
BroadcastMul(a, b) ==
    LET shape == BroadcastShape(a.shape, b.shape)
    IN  [dtype |-> a.dtype, shape |-> shape,
         data |-> [idx \in IdxSet(shape) |->
                      FMul(a.data[Proj(idx, a.shape)], b.data[Proj(idx, b.shape)])]]

BroadcastDiv(a, b) ==
    LET shape == BroadcastShape(a.shape, b.shape)
    IN  [dtype |-> a.dtype, shape |-> shape,
         data |-> [idx \in IdxSet(shape) |->
                      FDiv(a.data[Proj(idx, a.shape)], b.data[Proj(idx, b.shape)])]]

BroadcastAdd(a, b) ==
    LET shape == BroadcastShape(a.shape, b.shape)
    IN  [dtype |-> a.dtype, shape |-> shape,
         data |-> [idx \in IdxSet(shape) |->
                      FAdd(a.data[Proj(idx, a.shape)], b.data[Proj(idx, b.shape)])]]

\* np.maximum(arr, c) for a scalar c
MaximumScalar(arr, c) ==
    [dtype |-> arr.dtype, shape |-> arr.shape,
     data |-> [idx \in IdxSet(arr.shape) |-> FMaximum(arr.data[idx], c)]]

\* np.median along axis 0: the values are sorted; the middle one, or the mean
\* of the two middle ones when their number is even
RECURSIVE InsertSorted(_, _)
InsertSorted(v, s) ==
    IF s = <<>> THEN <<v>>
    ELSE IF FLt(Head(s), v) THEN <<Head(s)>> \o InsertSorted(v, Tail(s))
    ELSE <<v>> \o s

RECURSIVE Sort(_)
Sort(s) == IF s = <<>> THEN <<>> ELSE InsertSorted(Head(s), Sort(Tail(s)))

\* (variant) the upper middle value taken for an even number of values
MedianOf_upper(s) ==
    LET sorted == Sort(s)
    IN  IF Len(s) = 0 THEN NaN ELSE sorted[Len(s) \div 2 + 1]

MedianOf(s) ==
    LET n == Len(s)
        sorted == Sort(s)
    IN  IF n = 0 THEN NaN
        ELSE IF n % 2 = 1 THEN sorted[(n + 1) \div 2]
        ELSE FDiv(FAdd(sorted[n \div 2], sorted[n \div 2 + 1]), Frac(2, 1))

np_median0(arr) ==
    [dtype |-> FloatResult(arr.dtype), shape |-> Tail(arr.shape),
     data |-> [idx \in IdxSet(Tail(arr.shape)) |-> MedianOf(Axis0(arr, idx))]]

(***************************************************************************)
(* The outcome of a call: the exception that left it (or "none"), the      *)
(* returned list, and the number of output frames computed when it ended.  *)
(***************************************************************************)
Returned(out) == [exc |-> "none", out |-> out, frames |-> Len(out)]

Raised(e, computed) == [exc |-> e, out |-> <<>>, frames |-> computed]

(***************************************************************************)
(* MaskStabilizer.moving_average                                           *)
(***************************************************************************)
\* (variant) the window opened one frame early
window_start_wide(i, half_window) == Max(0, i - half_window - 1)

\* start = max(0, i - half_window)
window_start(i, half_window) == Max(0, i - half_window)

\* (variant) the end bound taken as the last index, not one past it
window_end_inclusive(num_frames, i, half_window) == Min(num_frames, i + half_window)

\* end = min(num_frames, i + half_window + 1)
window_end(num_frames, i, half_window) == Min(num_frames, i + half_window + 1)

\* masks[start:end] of a Python list (0-based, end exclusive)
Slice(list, start, end) == SubSeq(list, start + 1, end)

avg_mask(window_masks) == astype(np_mean0(np_array(window_masks)), "float32")

\* (variant) the previous output frame averaged in with the window
RECURSIVE moving_average_loop_feedback(_, _, _, _)
moving_average_loop_feedback(ms, half_window, i, smoothed_masks) ==
    IF i >= Len(ms) THEN Returned(smoothed_masks)
    ELSE LET start == window_start(i, half_window)
             end   == window_end(Len(ms), i, half_window)
             window_masks ==
                 IF smoothed_masks = <<>> THEN Slice(ms, start, end)
                 ELSE <<smoothed_masks[Len(smoothed_masks)]>> \o Slice(ms, start, end)
         IN  moving_average_loop_feedback(ms, half_window, i + 1,
                                 Append(smoothed_masks, avg_mask(window_masks)))

RECURSIVE moving_average_loop(_, _, _, _)
moving_average_loop(ms, half_window, i, smoothed_masks) ==
    IF i >= Len(ms) THEN Returned(smoothed_masks)
    ELSE LET start == window_start(i, half_window)
             end   == window_end(Len(ms), i, half_window)
             window_masks == Slice(ms, start, end)
         IN  moving_average_loop(ms, half_window, i + 1,
                                 Append(smoothed_masks, avg_mask(window_masks)))

\* (variant) the parity check of window_size left out
moving_average_unvalidated(ms, window_size) ==
    moving_average_loop(ms, window_size \div 2, 0, <<>>)

moving_average(ms, window_size) ==
    IF window_size % 2 = 0 THEN Raised("ValueError", 0)
    ELSE moving_average_loop(ms, window_size \div 2, 0, <<>>)

(***************************************************************************)
(* MaskStabilizer.median_filter                                            *)
(***************************************************************************)
median_mask(window_masks) == astype(np_median0(np_array(window_masks)), "float32")

RECURSIVE median_filter_loop(_, _, _, _)
median_filter_loop(ms, half_window, i, smoothed_masks) ==
    IF i >= Len(ms) THEN Returned(smoothed_masks)
    ELSE LET start == window_start(i, half_window)
             end   == window_end(Len(ms), i, half_window)
             window_masks == Slice(ms, start, end)
         IN  median_filter_loop(ms, half_window, i + 1,
                                Append(smoothed_masks, median_mask(window_masks)))

median_filter(ms, window_size) ==
    IF window_size % 2 = 0 THEN Raised("ValueError", 0)
    ELSE median_filter_loop(ms, window_size \div 2, 0, <<>>)

(***************************************************************************)
(* MaskStabilizer.exponential_smoothing                                    *)
(***************************************************************************)
\* (variant) the interval taken closed: not 0 <= alpha <= 1
alpha_invalid_closed(alpha) == ~(FLe(Zero, alpha) /\ FLe(alpha, One))

\* not 0 < alpha < 1
alpha_invalid(alpha) == ~(FLt(Zero, alpha) /\ FLt(alpha, One))

\* smoothed = alpha * masks[i] + (1 - alpha) * smoothed
smooth_step(alpha, mask, smoothed) ==
    BroadcastAdd(ScalarMul(alpha, mask), ScalarMul(FSub(One, alpha), smoothed))

\* (variant) the previous input frame used in place of the previous output
RECURSIVE exponential_smoothing_loop_prev_input(_, _, _, _, _)
exponential_smoothing_loop_prev_input(ms, alpha, i, smoothed, smoothed_masks) ==
    IF i >= Len(ms) THEN Returned(smoothed_masks)
    ELSE LET next == smooth_step(alpha, ms[i + 1], ms[i])
         IN  exponential_smoothing_loop_prev_input(ms, alpha, i + 1, next,
                    Append(smoothed_masks, astype(next, "float32")))

RECURSIVE exponential_smoothing_loop(_, _, _, _, _)
exponential_smoothing_loop(ms, alpha, i, smoothed, smoothed_masks) ==
    IF i >= Len(ms) THEN Returned(smoothed_masks)
    ELSE LET next == smooth_step(alpha, ms[i + 1], smoothed)
         IN  exponential_smoothing_loop(ms, alpha, i + 1, next,
                                        Append(smoothed_masks, astype(next, "float32")))

\* (variant) the first frame not appended to the output
exponential_smoothing_drop_first(ms, alpha) ==
    IF alpha_invalid(alpha) THEN Raised("ValueError", 0)
    ELSE IF ms = <<>> THEN Raised("IndexError", 0)
    ELSE exponential_smoothing_loop(ms, alpha, 1, copy(ms[1]), <<>>)

exponential_smoothing(ms, alpha) ==
    IF alpha_invalid(alpha) THEN Raised("ValueError", 0)
    ELSE IF ms = <<>> THEN Raised("IndexError", 0)        \* masks[0]
    ELSE LET smoothed == copy(ms[1])
         IN  exponential_smoothing_loop(ms, alpha, 1, smoothed, <<smoothed>>)

(***************************************************************************)
(* MaskStabilizer.bilateral_temporal_filter                                *)
(***************************************************************************)
\* the guard of the division by the weight sum, 1e-8
Epsilon == Frac(1, 100000000)

\* 2 * sigma**2
two_sigma_sq(sigma) == FMul(Frac(2, 1), FMul(sigma, sigma))

\* np.exp(-temporal_dist**2 / (2 * sigma_temporal**2)): Python scalars
temporal_weight(temporal_dist, sigma_temporal) ==
    NpExp(FDiv(Frac(-(temporal_dist * temporal_dist), 1),
               two_sigma_sq(sigma_temporal)))

\* intensity_dist = np.abs(masks[j] - current_mask)
\* np.exp(-intensity_dist**2 / (2 * sigma_intensity**2)): elementwise; an
\* array divided by 0.0 gives -inf or nan, never an exception
intensity_weight(mask_j, current_mask, sigma_intensity) ==
    [dtype |-> mask_j.dtype, shape |-> mask_j.shape,
     data |-> [idx \in IdxSet(mask_j.shape) |->
        LET intensity_dist == FAbs(FSub(mask_j.data[idx], current_mask.data[idx]))
        IN  NpExp(FDiv(FNeg(FMul(intensity_dist, intensity_dist)),
                       two_sigma_sq(sigma_intensity)))]]

\* weight = temporal_weight * intensity_weight, for neighbour j of frame i
weight(ms, i, j, sigma_temporal, sigma_intensity) ==
    ScalarMul(temporal_weight(Abs(j - i), sigma_temporal),
              intensity_weight(ms[j + 1], ms[i + 1], sigma_intensity))

\* the list `weights` built by the inner loop over j in range(start, end)
weights_list(ms, i, start, end, sigma_temporal, sigma_intensity) ==
    [k \in 1 .. (end - start) |->
        weight(ms, i, start + k - 1, sigma_temporal, sigma_intensity)]

\* weights = np.array(weights)
\* weights_sum = np.maximum(np.sum(weights, axis=0, keepdims=True), 1e-8)
\* smoothed = np.sum(weights[:, None, None] * np.array(window_masks), axis=0)
\*            / weights_sum[0]
weighted_average(wlist, window_masks) ==
    LET weights     == np_array(wlist)
        weights_sum == MaximumScalar(np_sum0_keepdims(weights), Epsilon)
    IN  BroadcastDiv(
            np_sum0(BroadcastMul(ColonNoneNone(weights), np_array(window_masks))),
            Index0(weights_sum))

RECURSIVE bilateral_loop(_, _, _, _, _, _)
bilateral_loop(ms, half_window, sigma_temporal, sigma_intensity, i, smoothed_masks) ==
    IF i >= Len(ms) THEN Returned(smoothed_masks)
    ELSE LET start == window_start(i, half_window)
             end   == window_end(Len(ms), i, half_window)
         IN  IF start < end /\ two_sigma_sq(sigma_temporal) = Zero
             THEN Raised("ZeroDivisionError", Len(smoothed_masks))
             ELSE LET wlist    == weights_list(ms, i, start, end,
                                               sigma_temporal, sigma_intensity)
                      smoothed == weighted_average(wlist, Slice(ms, start, end))
                  IN  bilateral_loop(ms, half_window, sigma_temporal,
                                     sigma_intensity, i + 1,
                                     Append(smoothed_masks, astype(smoothed, "float32")))

bilateral_temporal_filter(ms, window_size, sigma_temporal, sigma_intensity) ==
    IF window_size % 2 = 0 THEN Raised("ValueError", 0)
    ELSE bilateral_loop(ms, window_size \div 2, sigma_temporal, sigma_intensity,
                        0, <<>>)

(***************************************************************************)
(* Inputs.  Probability maps are float32 grids of one shape per sequence;  *)
(* the sequence may be empty.  Single-pixel grids take three levels, the   *)
(* two-pixel grids the two binary levels.                                  *)
(***************************************************************************)
Shapes == {<<1, 1>>, <<1, 2>>}

PixelVals(shape) ==
    IF shape = <<1, 1>> THEN {Zero, Frac(1, 2), One} ELSE {Zero, One}

Masks(shape) ==
    {[dtype |-> "float32", shape |-> shape, data |-> f] :
        f \in [IdxSet(shape) -> PixelVals(shape)]}

MaskSequences ==
    {<<>>} \cup UNION {[1 .. n -> Masks(shape)] : n \in 1 .. MaxFrames, shape \in Shapes}

WindowSizes == 0 .. MaxWindow

Alphas == {Frac(-1, 2), Zero, Frac(1, 4), Frac(1, 2), One, Frac(3, 2)}

\* <<sigma_temporal, sigma_intensity>>: two valid pairs, then one sigma zero
\* or negative at a time
SigmaPairs ==
    {<<One, Frac(1, 2)>>, <<Frac(1, 2), One>>,
     <<Zero, Frac(1, 2)>>, <<One, Zero>>,
     <<Frac(-1, 1), Frac(1, 2)>>, <<One, Frac(-1, 2)>>}

\* the defaults of the keyword parameters (a call records them when unused)
DefaultCall ==
    [method |-> "none", window_size |-> 5, alpha |-> Frac(3, 10),
     sigma_temporal |-> One, sigma_intensity |-> Frac(1, 10)]

(***************************************************************************)
(* The state machine: a caller holds a mask sequence and makes one call.   *)
(***************************************************************************)
Init ==
    /\ masks \in MaskSequences
    /\ call = DefaultCall
    /\ pc = "idle"
    /\ result = <<>>
    /\ exc = "none"
    /\ frames = 0
    /\ ServerIdle

Finish(r) ==
    /\ pc' = IF r.exc = "none" THEN "returned" ELSE "raised"
    /\ result' = r.out
    /\ exc' = r.exc
    /\ frames' = r.frames
    /\ UNCHANGED <<masks, server>>

CallMovingAverage ==
    /\ pc = "idle"
    /\ \E window_size \in WindowSizes :
          /\ call' = [DefaultCall EXCEPT !.method = "moving_average",
                                         !.window_size = window_size]
          /\ Finish(moving_average(masks, window_size))

CallMedianFilter ==
    /\ pc = "idle"
    /\ \E window_size \in WindowSizes :
          /\ call' = [DefaultCall EXCEPT !.method = "median_filter",
                                         !.window_size = window_size]
          /\ Finish(median_filter(masks, window_size))

CallExponentialSmoothing ==
    /\ pc = "idle"
    /\ \E alpha \in Alphas :
          /\ call' = [DefaultCall EXCEPT !.method = "exponential_smoothing",
                                         !.alpha = alpha]
          /\ Finish(exponential_smoothing(masks, alpha))

CallBilateralTemporalFilter ==
    /\ pc = "idle"
    /\ \E window_size \in WindowSizes, sigmas \in SigmaPairs :
          /\ call' = [DefaultCall EXCEPT !.method = "bilateral_temporal",
                                         !.window_size = window_size,
                                         !.sigma_temporal = sigmas[1],
                                         !.sigma_intensity = sigmas[2]]
          /\ Finish(bilateral_temporal_filter(masks, window_size,
                                              sigmas[1], sigmas[2]))

Next ==
    \/ CallMovingAverage
    \/ CallMedianFilter
    \/ CallExponentialSmoothing
    \/ CallBilateralTemporalFilter

Spec == Init /\ [][Next]_vars

(***************************************************************************)
(* Vocabulary of the properties below.                                     *)
(***************************************************************************)
NumFrames == Len(masks)

Ended == pc # "idle"

ReturnedFrom(method) == pc = "returned" /\ call.method = method

WindowedMethods == {"moving_average", "median_filter", "bilateral_temporal"}

OddWindow == call.window_size % 2 = 1 /\ call.window_size > 0

\* 0 < a < 1 for a finite rational
InOpenUnit(a) == a.d > 0 /\ 0 < a.n /\ a.n < a.d

Positive(a) == a.n > 0

\* the parameters of the call are the ones the method documents as valid
ValidParams ==
    \/ call.method \in {"moving_average", "median_filter"} /\ OddWindow
    \/ call.method = "exponential_smoothing" /\ InOpenUnit(call.alpha)
    \/ /\ call.method = "bilateral_temporal"
       /\ OddWindow
       /\ Positive(call.sigma_temporal)
       /\ Positive(call.sigma_intensity)

\* the frame indices (0-based) of the clipped window of output index i
ClippedWindow(i) ==
    LET h == call.window_size \div 2
    IN  {j \in 0 .. (NumFrames - 1) : Max(0, i - h) <= j /\ j < Min(NumFrames, i + h + 1)}

\* pixel p of input frame j (0-based)
Pixel(j, p) == masks[j + 1].data[p]

RECURSIVE SumOver(_, _)
SumOver(J, p) ==
    IF J = {} THEN Zero
    ELSE LET j == CHOOSE x \in J : TRUE
         IN  FAdd(Pixel(j, p), SumOver(J \ {j}, p))

\* v is the mean over the frames J of pixel p
IsMeanOf(v, J, p) == FMul(v, Frac(Cardinality(J), 1)) = SumOver(J, p)

\* x is the r-th smallest (1-based) of pixel p over the frames J
IsRanked(x, r, J, p) ==
    /\ \E j \in J : Pixel(j, p) = x
    /\ Cardinality({j \in J : FLt(Pixel(j, p), x)}) < r
    /\ r <= Cardinality({j \in J : FLe(Pixel(j, p), x)})

\* v is the median over the frames J of pixel p: the middle value, or the
\* mean of the two middle values when J holds an even number of frames
IsMedianOf(v, J, p) ==
    LET k == Cardinality(J)
    IN  \E j1 \in J, j2 \in J :
           /\ IsRanked(Pixel(j1, p), (k + 1) \div 2, J, p)
           /\ IsRanked(Pixel(j2, p), k \div 2 + 1, J, p)
           /\ FMul(v, Frac(2, 1)) = FAdd(Pixel(j1, p), Pixel(j2, p))

\* output frame i (0-based) is a grid of the input frames' shape
IsGrid(i) == result[i + 1].shape = masks[1].shape

Pixels == IdxSet(masks[1].shape)

(***************************************************************************)
(* C1.  For a non-empty sequence of N frames and valid parameters, each of *)
(* the four smoothing operations returns a list of exactly N frames.       *)
(***************************************************************************)
C1_LengthPreserved ==
    (Ended /\ NumFrames >= 1 /\ ValidParams)
        => (pc = "returned" /\ Len(result) = NumFrames)

C1_Witness ==
    /\ ReturnedFrom("exponential_smoothing")
    /\ ValidParams
    /\ NumFrames = 3
    /\ Len(result) = 3

(***************************************************************************)
(* C2.  For a non-empty sequence of H x W masks and valid parameters,      *)
(* every output frame of the four smoothing operations has shape exactly   *)
(* H x W, also where the window is clipped at a sequence boundary.         *)
(***************************************************************************)
C2_ShapePreserved ==
    (pc = "returned" /\ NumFrames >= 1 /\ ValidParams)
        => \A i \in 1 .. Len(result) : result[i].shape = masks[1].shape

(***************************************************************************)
(* C3.  moving_average with an odd window_size, h = window_size // 2:      *)
(* output[i] is the elementwise mean of exactly the input frames j with    *)
(* max(0, i-h) <= j < min(N, i+h+1), for every i in 0..N-1; for            *)
(* window_size 3, frame 0 is the mean of frames {0,1} and frame 2 the mean *)
(* of frames {1,2,3}.                                                      *)
(***************************************************************************)
C3_MovingAverageWindow ==
    ReturnedFrom("moving_average") =>
        /\ Len(result) = NumFrames
        /\ \A i \in 0 .. (NumFrames - 1) :
              /\ IsGrid(i)
              /\ \A p \in Pixels : IsMeanOf(result[i + 1].data[p], ClippedWindow(i), p)
        /\ (call.window_size = 3 /\ NumFrames >= 4) =>
              \A p \in Pixels :
                 /\ IsMeanOf(result[1].data[p], {0, 1}, p)
                 /\ IsMeanOf(result[3].data[p], {1, 2, 3}, p)

C3_Witness ==
    /\ ReturnedFrom("moving_average")
    /\ call.window_size = 3
    /\ NumFrames = 4
    /\ \E p \in Pixels :
          /\ Pixel(0, p) = Zero /\ Pixel(1, p) = One
          /\ Pixel(2, p) = Zero /\ Pixel(3, p) = Zero
          /\ result[1].data[p] = Frac(1, 2)
          /\ result[3].data[p] = Frac(1, 3)

(***************************************************************************)
(* C4.  median_filter uses the same clipped window as moving_average, and  *)
(* output[i] is the elementwise median of the frames in it (the mean of    *)
(* the two middle values when the clipped window holds an even number of   *)
(* frames).                                                                *)
(***************************************************************************)
C4_MedianWindow ==
    ReturnedFrom("median_filter") =>
        /\ Len(result) = NumFrames
        /\ \A i \in 0 .. (NumFrames - 1) :
              /\ IsGrid(i)
              /\ \A p \in Pixels : IsMedianOf(result[i + 1].data[p], ClippedWindow(i), p)

C4_Witness ==
    /\ ReturnedFrom("median_filter")
    /\ call.window_size = 3
    /\ NumFrames = 3
    /\ \E p \in Pixels :
          /\ Pixel(0, p) = Zero /\ Pixel(1, p) = One /\ Pixel(2, p) = One
          /\ result[1].data[p] = Frac(1, 2)
          /\ result[2].data[p] = One

(***************************************************************************)
(* C5.  exponential_smoothing with 0 < alpha < 1 on a non-empty sequence:  *)
(* Output[0] = Input[0], and for t >= 1                                    *)
(* Output[t] = alpha*Input[t] + (1-alpha)*Output[t-1], with Output[t-1]    *)
(* the previously produced output frame.                                   *)
(***************************************************************************)
C5_ExponentialRecurrence ==
    ReturnedFrom("exponential_smoothing") =>
        /\ Len(result) = NumFrames
        /\ NumFrames >= 1
        /\ IsGrid(0)
        /\ \A p \in Pixels : result[1].data[p] = Pixel(0, p)
        /\ \A t \in 1 .. (NumFrames - 1) :
              /\ IsGrid(t)
              /\ \A p \in Pixels :
                    result[t + 1].data[p] =
                        FAdd(FMul(call.alpha, Pixel(t, p)),
                             FMul(FSub(One, call.alpha), result[t].data[p]))

C5_Witness ==
    /\ ReturnedFrom("exponential_smoothing")
    /\ call.alpha = Frac(1, 4)
    /\ NumFrames = 3
    /\ \E p \in Pixels :
          /\ Pixel(0, p) = Zero /\ Pixel(1, p) = One /\ Pixel(2, p) = One
          /\ result[2].data[p] = Frac(1, 4)
          /\ result[3].data[p] = Frac(7, 16)

(***************************************************************************)
(* C6.  bilateral_temporal_filter: output[i][p] is the sum over the        *)
(* clipped window of w_j[p] * Mask[j][p], over max(sum of w_j[p], 1e-8),   *)
(* with w_j[p] the temporal weight of |i-j| times the intensity weight of  *)
(* |Mask[j][p] - Mask[i][p]|: each neighbour frame is multiplied by its    *)
(* own per-pixel weight before the sum.                                    *)
(***************************************************************************)
\* w_j[p] for output index i
PixelWeight(i, j, p) ==
    FMul(temporal_weight(Abs(i - j), call.sigma_temporal),
         NpExp(FDiv(FNeg(FMul(FSub(Pixel(j, p), Pixel(i, p)),
                              FSub(Pixel(j, p), Pixel(i, p)))),
                    two_sigma_sq(call.sigma_intensity))))

RECURSIVE WeightedSum(_, _, _)
WeightedSum(J, i, p) ==
    IF J = {} THEN Zero
    ELSE LET j == CHOOSE x \in J : TRUE
         IN  FAdd(FMul(PixelWeight(i, j, p), Pixel(j, p)), WeightedSum(J \ {j}, i, p))

RECURSIVE WeightTotal(_, _, _)
WeightTotal(J, i, p) ==
    IF J = {} THEN Zero
    ELSE LET j == CHOOSE x \in J : TRUE
         IN  FAdd(PixelWeight(i, j, p), WeightTotal(J \ {j}, i, p))

\* C6: every output frame of bilateral_temporal_filter is the H x W grid of
\* the per-pixel weighted averages over the clipped window.
C6_BilateralWeightedAverage ==
    (ReturnedFrom("bilateral_temporal") /\ ValidParams) =>
        \A i \in 0 .. (Len(result) - 1) :
           /\ IsGrid(i)
           /\ \A p \in Pixels :
                 result[i + 1].data[p] =
                     FDiv(WeightedSum(ClippedWindow(i), i, p),
                          FMaximum(WeightTotal(ClippedWindow(i), i, p), Epsilon))

(***************************************************************************)
(* C7.  moving_average, median_filter and bilateral_temporal_filter called *)
(* with an even window_size fail with ValueError, whatever the input       *)
(* sequence, before any output frame is computed.                          *)
(***************************************************************************)
C7_EvenWindowRejected ==
    (Ended /\ call.method \in WindowedMethods /\ call.window_size % 2 = 0)
        => (pc = "raised" /\ exc = "ValueError" /\ frames = 0 /\ result = <<>>)

C7_Witness ==
    /\ pc = "raised"
    /\ exc = "ValueError"
    /\ call.method = "bilateral_temporal"
    /\ call.window_size = 2
    /\ NumFrames = 2

(***************************************************************************)
(* C8.  exponential_smoothing fails with ValueError for every alpha        *)
(* outside the open interval (0,1), alpha = 0 and alpha = 1 included, and  *)
(* accepts every alpha strictly inside it.                                 *)
(***************************************************************************)
C8_AlphaOpenInterval ==
    (Ended /\ call.method = "exponential_smoothing") =>
        IF InOpenUnit(call.alpha)
        THEN exc # "ValueError" /\ (NumFrames >= 1 => pc = "returned")
        ELSE pc = "raised" /\ exc = "ValueError" /\ frames = 0

C8_Witness ==
    /\ pc = "raised"
    /\ exc = "ValueError"
    /\ call.method = "exponential_smoothing"
    /\ call.alpha = One
    /\ NumFrames = 2

(***************************************************************************)
(* C9.  bilateral_temporal_filter fails with an invalid-parameter error    *)
(* (ValueError) whenever sigma_temporal <= 0 or sigma_intensity <= 0, for  *)
(* every input sequence and odd window_size.                               *)
(***************************************************************************)
C9_NonPositiveSigmaRejected ==
    (/\ Ended
     /\ call.method = "bilateral_temporal"
     /\ OddWindow
     /\ (~Positive(call.sigma_temporal) \/ ~Positive(call.sigma_intensity)))
        => (pc = "raised" /\ exc = "ValueError")

(***************************************************************************)
(* C10.  Each of the four smoothing operations, called with valid          *)
(* parameters on an empty mask sequence, fails with an error rather than   *)
(* returning a result.                                                     *)
(***************************************************************************)
C10_EmptyInputRejected ==
    (Ended /\ NumFrames = 0 /\ ValidParams) => pc = "raised"

(***************************************************************************)
(* MaskStabilizer.apply_method: dispatch by method name, the keyword       *)
(* parameters passed on as **params.                                       *)
(***************************************************************************)
\* the keyword parameters of each smoothing function
accepted_keywords(fname) ==
    IF fname \in {"moving_average", "median_filter"} THEN {"window_size"}
    ELSE IF fname = "exponential_smoothing" THEN {"alpha"}
    ELSE {"window_size", "sigma_temporal", "sigma_intensity"}

\* the value bound to keyword k: the one passed, or the signature's default
keyword(params, k) == IF k \in DOMAIN params THEN params[k] ELSE DefaultCall[k]

\* f(masks, **params) for the function named fname: a keyword the function
\* does not have is a TypeError, raised before its body runs
call_with_keywords(fname, ms, params) ==
    IF ~(DOMAIN params \subseteq accepted_keywords(fname))
    THEN Raised("TypeError", 0)
    ELSE IF fname = "moving_average"
    THEN moving_average(ms, keyword(params, "window_size"))
    ELSE IF fname = "median_filter"
    THEN median_filter(ms, keyword(params, "window_size"))
    ELSE IF fname = "exponential_smoothing"
    THEN exponential_smoothing(ms, keyword(params, "alpha"))
    ELSE bilateral_temporal_filter(ms, keyword(params, "window_size"),
                                   keyword(params, "sigma_temporal"),
                                   keyword(params, "sigma_intensity"))

\* the keys of method_map
method_names ==
    {"moving_average", "median_filter", "exponential_smoothing", "bilateral_temporal"}

\* (variant) 'median_filter' bound to the moving average
method_map_median_as_average(method) ==
    IF method = "bilateral_temporal" THEN "bilateral_temporal_filter"
    ELSE IF method = "median_filter" THEN "moving_average"
    ELSE method

\* method_map[method]: the function each key is bound to
method_map(method) ==
    IF method = "bilateral_temporal" THEN "bilateral_temporal_filter" ELSE method

apply_method(ms, method, params) ==
    IF method \notin method_names THEN Raised("ValueError", 0)
    ELSE call_with_keywords(method_map(method), ms, params)

\* method names a caller passes: the four keys, a function name that is not
\* a key, and a name of no method
MethodArgs == method_names \cup {"bilateral_temporal_filter", "gaussian"}

\* **params of a call
ParamDicts ==
    {[window_size |-> 3],
     [window_size |-> 2],
     [alpha |-> Frac(1, 2)],
     [window_size |-> 3, sigma_temporal |-> One, sigma_intensity |-> Frac(1, 2)],
     [k \in {} |-> Zero]}

CallApplyMethod ==
    /\ pc = "idle"
    /\ \E method \in MethodArgs, params \in ParamDicts :
          /\ call' = [method |-> method, params |-> params]
          /\ Finish(apply_method(masks, method, params))

SpecApply == Init /\ [][CallApplyMethod]_vars

\* how the call ended, as the record the function operators give
Outcome == [exc |-> exc, out |-> result, frames |-> frames]

(***************************************************************************)
(* C11.  apply_method(masks, method, params): a method that is not one of  *)
(* the four recognized names fails with ValueError at dispatch, before any *)
(* algorithm runs; a recognized method gives exactly the result (value or  *)
(* error) of calling the named algorithm with the same masks and params.   *)
(***************************************************************************)
C11_ApplyMethodDispatch ==
    Ended =>
        IF call.method = "moving_average"
        THEN Outcome = call_with_keywords("moving_average", masks, call.params)
        ELSE IF call.method = "median_filter"
        THEN Outcome = call_with_keywords("median_filter", masks, call.params)
        ELSE IF call.method = "exponential_smoothing"
        THEN Outcome = call_with_keywords("exponential_smoothing", masks, call.params)
        ELSE IF call.method = "bilateral_temporal"
        THEN Outcome = call_with_keywords("bilateral_temporal_filter", masks, call.params)
        ELSE pc = "raised" /\ exc = "ValueError" /\ frames = 0 /\ result = <<>>

C11_Witness ==
    /\ pc = "returned"
    /\ call.method = "median_filter"
    /\ call.params = [window_size |-> 3]
    /\ NumFrames = 3
    /\ \E p \in Pixels :
          /\ Pixel(0, p) = Zero /\ Pixel(1, p) = Zero /\ Pixel(2, p) = One
          /\ result[2].data[p] = Zero

(***************************************************************************)
(* Stability metrics (src/src/metrics.py).  A returned Python float is an  *)
(* exact value; a returned list is a sequence; a returned dict is a        *)
(* record.                                                                 *)
(***************************************************************************)
ReturnedValue(v) == [exc |-> "none", out |-> v, frames |-> 0]

Half == Frac(1, 2)

\* (variant) every mask thresholded at 0, whatever its dtype
binarize_at_zero(mask) ==
    [dtype |-> "uint8", shape |-> mask.shape,
     data |-> [idx \in IdxSet(mask.shape) |->
                  IF FLt(Zero, mask.data[idx]) THEN One ELSE Zero]]

\* (mask > 0.5).astype(np.uint8) for a float32/float64 mask,
\* (mask > 0).astype(np.uint8) for any other dtype
binarize(mask) ==
    [dtype |-> "uint8", shape |-> mask.shape,
     data |-> [idx \in IdxSet(mask.shape) |->
                  IF mask.dtype \in {"float32", "float64"}
                  THEN (IF FLt(Half, mask.data[idx]) THEN One ELSE Zero)
                  ELSE (IF FLt(Zero, mask.data[idx]) THEN One ELSE Zero)]]

\* arr.sum() of a 0/1 array: the number of ones
count_nonzero(arr) == Cardinality({idx \in IdxSet(arr.shape) : arr.data[idx] # Zero})

\* np.logical_and(a, b).sum() and np.logical_or(a, b).sum(), equal shapes
logical_and_sum(a, b) ==
    Cardinality({idx \in IdxSet(a.shape) : a.data[idx] # Zero /\ b.data[idx] # Zero})

logical_or_sum(a, b) ==
    Cardinality({idx \in IdxSet(a.shape) : a.data[idx] # Zero \/ b.data[idx] # Zero})

\* (variant) an empty union scored 0
calculate_iou_empty_zero(mask1, mask2) ==
    LET mask1_bin    == binarize(mask1)
        mask2_bin    == binarize(mask2)
        intersection == logical_and_sum(mask1_bin, mask2_bin)
        union        == logical_or_sum(mask1_bin, mask2_bin)
    IN  IF union = 0 THEN Zero ELSE Frac(intersection, union)

calculate_iou(mask1, mask2) ==
    LET mask1_bin    == binarize(mask1)
        mask2_bin    == binarize(mask2)
        intersection == logical_and_sum(mask1_bin, mask2_bin)
        union        == logical_or_sum(mask1_bin, mask2_bin)
    IN  IF union = 0 THEN (IF intersection = 0 THEN One ELSE Zero)
        ELSE Frac(intersection, union)

\* (variant) the intersection counted once
calculate_dice_single_intersection(mask1, mask2) ==
    LET mask1_bin    == binarize(mask1)
        mask2_bin    == binarize(mask2)
        intersection == logical_and_sum(mask1_bin, mask2_bin)
        total        == count_nonzero(mask1_bin) + count_nonzero(mask2_bin)
    IN  IF total = 0 THEN (IF intersection = 0 THEN One ELSE Zero)
        ELSE Frac(intersection, total)

\* (variant) the denominator taken as the size of the union
calculate_dice_over_union(mask1, mask2) ==
    LET mask1_bin    == binarize(mask1)
        mask2_bin    == binarize(mask2)
        intersection == logical_and_sum(mask1_bin, mask2_bin)
        total        == logical_or_sum(mask1_bin, mask2_bin)
    IN  IF total = 0 THEN (IF intersection = 0 THEN One ELSE Zero)
        ELSE Frac(2 * intersection, total)

calculate_dice(mask1, mask2) ==
    LET mask1_bin    == binarize(mask1)
        mask2_bin    == binarize(mask2)
        intersection == logical_and_sum(mask1_bin, mask2_bin)
        total        == count_nonzero(mask1_bin) + count_nonzero(mask2_bin)
    IN  IF total = 0 THEN (IF intersection = 0 THEN One ELSE Zero)
        ELSE Frac(2 * intersection, total)

\* (variant) every frame compared with the first frame
calculate_instability_from_first(ms) ==
    IF Len(ms) < 2 THEN <<>>
    ELSE [t \in 1 .. (Len(ms) - 1) |-> FSub(One, calculate_iou(ms[1], ms[t + 1]))]

\* for i in range(len(masks) - 1): append 1.0 - iou(masks[i], masks[i + 1])
calculate_instability(ms) ==
    IF Len(ms) < 2 THEN <<>>
    ELSE [t \in 1 .. (Len(ms) - 1) |-> FSub(One, calculate_iou(ms[t], ms[t + 1]))]

calculate_temporal_consistency(ms) ==
    IF Len(ms) < 2 THEN <<>>
    ELSE [t \in 1 .. (Len(ms) - 1) |-> calculate_iou(ms[t], ms[t + 1])]

(***************************************************************************)
(* numpy reductions of a Python list of floats.  Of an empty list, the     *)
(* mean, median and std are nan (a warning); min and max raise ValueError. *)
(***************************************************************************)
np_mean(xs) == FDiv(SumSeq(xs), Frac(Len(xs), 1))

np_median(xs) == MedianOf(xs)

\* np.std is the root of the mean squared deviation; the root is not
\* rational, so the value is kept by its square
np_std(xs) ==
    LET mu == np_mean(xs)
    IN  [squared |->
            np_mean([k \in 1 .. Len(xs) |-> FMul(FSub(xs[k], mu), FSub(xs[k], mu))])]

np_min(xs) == CHOOSE x \in {xs[k] : k \in 1 .. Len(xs)} :
                 \A k \in 1 .. Len(xs) : ~FLt(xs[k], x)

np_max(xs) == CHOOSE x \in {xs[k] : k \in 1 .. Len(xs)} :
                 \A k \in 1 .. Len(xs) : ~FLt(x, xs[k])

\* a / b of two numpy floats, kept as the quotient of its exact operands:
\* with b near 1e-8 its lowest terms exceed the checker's integers
Quotient(a, b) == [num |-> a, den |-> b]

\* the {'mean', 'median', 'std', 'min', 'max', 'scores'} block of one series;
\* np.min of an empty list raises ValueError
score_block(xs) ==
    [mean |-> np_mean(xs), median |-> np_median(xs), std |-> np_std(xs),
     min |-> np_min(xs), max |-> np_max(xs), scores |-> xs]

Hundred == Frac(100, 1)

\* (variant) the percent values divide by the bare 'before' mean
improvement_block_no_epsilon(instability_before, instability_after, iou_before, iou_after) ==
    [instability_reduction |->
        FSub(np_mean(instability_before), np_mean(instability_after)),
     instability_reduction_percent |->
        Quotient(FMul(Hundred, FSub(np_mean(instability_before), np_mean(instability_after))),
                 np_mean(instability_before)),
     iou_improvement |->
        FSub(np_mean(iou_after), np_mean(iou_before)),
     iou_improvement_percent |->
        Quotient(FMul(Hundred, FSub(np_mean(iou_after), np_mean(iou_before))),
                 np_mean(iou_before))]

improvement_block(instability_before, instability_after, iou_before, iou_after) ==
    [instability_reduction |->
        FSub(np_mean(instability_before), np_mean(instability_after)),
     instability_reduction_percent |->
        Quotient(FMul(Hundred, FSub(np_mean(instability_before), np_mean(instability_after))),
                 FAdd(np_mean(instability_before), Epsilon)),
     iou_improvement |->
        FSub(np_mean(iou_after), np_mean(iou_before)),
     iou_improvement_percent |->
        Quotient(FMul(Hundred, FSub(np_mean(iou_after), np_mean(iou_before))),
                 FAdd(np_mean(iou_before), Epsilon))]

compare_stability(masks_before, masks_after) ==
    LET instability_before == calculate_instability(masks_before)
        instability_after  == calculate_instability(masks_after)
        iou_before         == calculate_temporal_consistency(masks_before)
        iou_after          == calculate_temporal_consistency(masks_after)
    IN  IF Len(instability_before) = 0 \/ Len(instability_after) = 0
        THEN Raised("ValueError", 0)
        ELSE ReturnedValue(
               [instability_before |-> score_block(instability_before),
                instability_after  |-> score_block(instability_after),
                iou_before         |-> score_block(iou_before),
                iou_after          |-> score_block(iou_after),
                improvement        |-> improvement_block(instability_before,
                                          instability_after, iou_before, iou_after)])

\* 100 * mask_bin.sum() / mask_bin.size
area_percent(mask) ==
    FDiv(Frac(100 * count_nonzero(binarize(mask)), 1),
         Frac(Cardinality(IdxSet(mask.shape)), 1))

\* the {'mean', 'std', 'min', 'max'} block of calculate_mask_statistics
stat_block(xs) ==
    [mean |-> np_mean(xs), std |-> np_std(xs), min |-> np_min(xs), max |-> np_max(xs)]

calculate_mask_statistics(ms) ==
    LET areas       == [k \in 1 .. Len(ms) |-> area_percent(ms[k])]
        consistency == calculate_temporal_consistency(ms)
    IN  IF Len(areas) = 0 \/ Len(consistency) = 0
        THEN Raised("ValueError", 0)
        ELSE ReturnedValue(
               [num_frames |-> Len(ms),
                area |-> stat_block(areas),
                temporal_consistency |-> stat_block(consistency)])

(***************************************************************************)
(* Inputs of the metrics: the float32 sequences of the filters and uint8   *)
(* sequences with pixel values 0, 1 and 255.                               *)
(***************************************************************************)
IntPixelVals(shape) == IF shape = <<1, 1>> THEN {Zero, One, Frac(255, 1)} ELSE {Zero, One}

IntMasks(shape) ==
    {[dtype |-> "uint8", shape |-> shape, data |-> d] :
        d \in [IdxSet(shape) -> IntPixelVals(shape)]}

IntMaskSequences ==
    UNION {UNION {[1 .. n -> IntMasks(shape)] : n \in 1 .. MaxFrames} : shape \in Shapes}

MetricSequences == MaskSequences \cup IntMaskSequences

\* a fixed sequence of 2 x 1 frames, a shape no input sequence has
OtherShapeSequence ==
    LET F(v) == [dtype |-> "float32", shape |-> <<2, 1>>,
                 data |-> [idx \in IdxSet(<<2, 1>>) |-> v]]
    IN  <<F(One), F(Zero), F(One)>>

\* the 'after' sequences compare_stability is called with
AfterSequences(ms) ==
    {ms, moving_average(ms, 3).out, median_filter(ms, 3).out,
     SubSeq(ms, 1, Len(ms) - 1), OtherShapeSequence}

InitMetrics ==
    /\ masks \in MetricSequences
    /\ call = DefaultCall
    /\ pc = "idle"
    /\ result = <<>>
    /\ exc = "none"
    /\ frames = 0
    /\ ServerIdle

CallIou ==
    /\ pc = "idle"
    /\ \E i \in 1 .. Len(masks), j \in 1 .. Len(masks) :
          /\ call' = [method |-> "calculate_iou", i |-> i, j |-> j]
          /\ Finish(ReturnedValue(calculate_iou(masks[i], masks[j])))

CallDice ==
    /\ pc = "idle"
    /\ \E i \in 1 .. Len(masks), j \in 1 .. Len(masks) :
          /\ call' = [method |-> "calculate_dice", i |-> i, j |-> j]
          /\ Finish(ReturnedValue(calculate_dice(masks[i], masks[j])))

CallInstability ==
    /\ pc = "idle"
    /\ call' = [method |-> "calculate_instability"]
    /\ Finish(ReturnedValue(calculate_instability(masks)))

CallTemporalConsistency ==
    /\ pc = "idle"
    /\ call' = [method |-> "calculate_temporal_consistency"]
    /\ Finish(ReturnedValue(calculate_temporal_consistency(masks)))

CallCompareStability ==
    /\ pc = "idle"
    /\ \E after \in AfterSequences(masks) :
          /\ call' = [method |-> "compare_stability", masks_after |-> after]
          /\ Finish(compare_stability(masks, after))

CallMaskStatistics ==
    /\ pc = "idle"
    /\ call' = [method |-> "calculate_mask_statistics"]
    /\ Finish(calculate_mask_statistics(masks))

NextMetrics ==
    \/ CallIou
    \/ CallDice
    \/ CallInstability
    \/ CallTemporalConsistency
    \/ CallCompareStability
    \/ CallMaskStatistics

SpecMetrics == InitMetrics /\ [][NextMetrics]_vars

(***************************************************************************)
(* Vocabulary of the metric claims                                         *)
(***************************************************************************)
IsFloatMask(m) == m.dtype \in {"float32", "float64"}

\* the foreground of a mask: value > 0.5 for a float mask, > 0 otherwise
Foreground(m) ==
    {p \in IdxSet(m.shape) :
        IF IsFloatMask(m) THEN FLt(Half, m.data[p]) ELSE FLt(Zero, m.data[p])}

\* |A and B| / |A or B|, 1 for an empty union
IoUOf(a, b) ==
    IF Foreground(a) \cup Foreground(b) = {} THEN One
    ELSE Frac(Cardinality(Foreground(a) \cap Foreground(b)),
              Cardinality(Foreground(a) \cup Foreground(b)))

\* C12: calculate_iou(A, B) binarizes each mask by its own dtype (> 0.5 for a
\* float mask, > 0 for an integer mask) and returns |A and B| / |A or B| of the
\* two foregrounds; with an empty union it returns 1.0 and raises nothing.
C12_IouOfBinarized ==
    (Ended /\ call.method = "calculate_iou") =>
        /\ pc = "returned"
        /\ result = IoUOf(masks[call.i], masks[call.j])
        /\ (Foreground(masks[call.i]) \cup Foreground(masks[call.j]) = {} => result = One)

\* two float frames at exactly 0.5, below the float threshold: empty union
C12_Witness ==
    /\ ReturnedFrom("calculate_iou")
    /\ IsFloatMask(masks[call.i])
    /\ call.i # call.j
    /\ \E p \in IdxSet(masks[call.i].shape) :
          masks[call.i].data[p] = Half /\ masks[call.j].data[p] = Half
    /\ Foreground(masks[call.i]) \cup Foreground(masks[call.j]) = {}
    /\ result = One

\* C13: calculate_dice(A, B) binarizes as calculate_iou does and returns
\* 2 |A and B| / (|A| + |B|); it returns 1.0 when |A| + |B| = 0.
C13_DiceOfBinarized ==
    (Ended /\ call.method = "calculate_dice") =>
        LET A == Foreground(masks[call.i])
            B == Foreground(masks[call.j])
        IN  /\ pc = "returned"
            /\ result = IF Cardinality(A) + Cardinality(B) = 0 THEN One
                        ELSE Frac(2 * Cardinality(A \cap B),
                                  Cardinality(A) + Cardinality(B))

\* integer frames with |A| = 2, |B| = 1, |A and B| = 1: dice 2/3
C13_Witness ==
    /\ ReturnedFrom("calculate_dice")
    /\ ~IsFloatMask(masks[call.i])
    /\ Cardinality(Foreground(masks[call.i])) = 2
    /\ Cardinality(Foreground(masks[call.j])) = 1
    /\ result = Frac(2, 3)

\* every frame is all-zero or all-one, and consecutive frames differ
Alternating ==
    /\ \A t \in 1 .. NumFrames :
          \/ \A p \in IdxSet(masks[t].shape) : masks[t].data[p] = Zero
          \/ \A p \in IdxSet(masks[t].shape) : masks[t].data[p] = One
    /\ \A t \in 1 .. (NumFrames - 1) : masks[t] # masks[t + 1]

\* C14: for N >= 1 frames calculate_instability and
\* calculate_temporal_consistency return N - 1 values, value t being
\* 1 - iou(mask[t], mask[t+1]) and iou(mask[t], mask[t+1]) in temporal order;
\* a sequence alternating all-zero and all-one frames has instability 1.0 at
\* every transition.
C14_PairwiseSeries ==
    /\ (Ended /\ call.method = "calculate_instability" /\ NumFrames >= 1) =>
          /\ pc = "returned"
          /\ Len(result) = NumFrames - 1
          /\ \A t \in 1 .. (NumFrames - 1) :
                result[t] = FSub(One, IoUOf(masks[t], masks[t + 1]))
          /\ Alternating => \A t \in 1 .. (NumFrames - 1) : result[t] = One
    /\ (Ended /\ call.method = "calculate_temporal_consistency" /\ NumFrames >= 1) =>
          /\ pc = "returned"
          /\ Len(result) = NumFrames - 1
          /\ \A t \in 1 .. (NumFrames - 1) :
                result[t] = IoUOf(masks[t], masks[t + 1])

\* four alternating frames: instability 1.0 at each of the three transitions
C14_Witness ==
    /\ ReturnedFrom("calculate_instability")
    /\ NumFrames = 4
    /\ Alternating
    /\ result = <<One, One, One>>

\* the instability and consistency series of a sequence, and a list's mean
InstabilityOf(ms) ==
    [t \in 1 .. (Len(ms) - 1) |-> FSub(One, IoUOf(ms[t], ms[t + 1]))]

ConsistencyOf(ms) ==
    [t \in 1 .. (Len(ms) - 1) |-> IoUOf(ms[t], ms[t + 1])]

MeanOf(xs) == FDiv(SumSeq(xs), Frac(Len(xs), 1))

\* a quotient whose divisor is a finite non-zero number
Defined(q) == IsFinite(q.num) /\ IsFinite(q.den) /\ q.den # Zero

\* C15: compare_stability(before, after) reports
\* instability_reduction = mean(instability_before) - mean(instability_after),
\* iou_improvement = mean(iou_after) - mean(iou_before), and each percent
\* value = 100 * (the absolute value) / (the 'before' mean + 1e-8), which is
\* defined even when the 'before' mean is 0.
C15_ImprovementFormulas ==
    ReturnedFrom("compare_stability") =>
        LET imp        == result.improvement
            instBefore == MeanOf(InstabilityOf(masks))
            instAfter  == MeanOf(InstabilityOf(call.masks_after))
            iouBefore  == MeanOf(ConsistencyOf(masks))
            iouAfter   == MeanOf(ConsistencyOf(call.masks_after))
        IN  /\ imp.instability_reduction = FSub(instBefore, instAfter)
            /\ imp.iou_improvement = FSub(iouAfter, iouBefore)
            /\ imp.instability_reduction_percent.num
                  = FMul(Frac(100, 1), imp.instability_reduction)
            /\ imp.instability_reduction_percent.den = FAdd(instBefore, Epsilon)
            /\ imp.iou_improvement_percent.num
                  = FMul(Frac(100, 1), imp.iou_improvement)
            /\ imp.iou_improvement_percent.den = FAdd(iouBefore, Epsilon)
            /\ Defined(imp.instability_reduction_percent)
            /\ Defined(imp.iou_improvement_percent)

\* 'before' alternates (mean IoU 0), 'after' is constant once binarized:
\* iou_improvement 1, percent 100 / 1e-8
C15_Witness ==
    /\ ReturnedFrom("compare_stability")
    /\ NumFrames = 3
    /\ result.iou_before.mean = Zero
    /\ result.iou_after.mean = One
    /\ result.improvement.iou_improvement = One
    /\ result.improvement.iou_improvement_percent = Quotient(Frac(100, 1), Epsilon)

\* the two sequences differ in length or in the shape of some frame
Mismatched(before, after) ==
    \/ Len(before) # Len(after)
    \/ \E t \in 1 .. Len(before) : before[t].shape # after[t].shape

\* C16: compare_stability(before, after) fails with an invalid-input error
\* whenever the two sequences differ in length or in per-frame shape; it
\* never returns a report for mismatched sequences.
C16_MismatchRejected ==
    (Ended /\ call.method = "compare_stability" /\ Mismatched(masks, call.masks_after)) =>
        pc = "raised" /\ exc = "ValueError"

\* the area percentage of a frame
AreaOf(m) ==
    FDiv(Frac(100 * Cardinality(Foreground(m)), 1),
         Frac(Cardinality(IdxSet(m.shape)), 1))

\* mean, min and max of a non-empty list xs are finite and are its own
IsSummaryOf(b, xs) ==
    /\ b.mean = MeanOf(xs)
    /\ IsFinite(b.mean) /\ IsFinite(b.std.squared)
    /\ IsFinite(b.min) /\ IsFinite(b.max)
    /\ \E k \in 1 .. Len(xs) : b.min = xs[k]
    /\ \E k \in 1 .. Len(xs) : b.max = xs[k]
    /\ \A k \in 1 .. Len(xs) : FLe(b.min, xs[k]) /\ FLe(xs[k], b.max)

\* C17: calculate_mask_statistics on a sequence of N >= 1 frames (N = 1
\* included) returns num_frames = N, the mean/std/min/max of the per-frame
\* area percentages 100 * foreground / pixels, and the mean/std/min/max of
\* the temporal consistency, every field finite, and raises nothing.
C17_StatisticsTotal ==
    (Ended /\ call.method = "calculate_mask_statistics" /\ NumFrames >= 1) =>
        /\ pc = "returned"
        /\ result.num_frames = NumFrames
        /\ IsSummaryOf(result.area, [k \in 1 .. NumFrames |-> AreaOf(masks[k])])
        /\ IsFinite(result.temporal_consistency.mean)
        /\ IsFinite(result.temporal_consistency.std.squared)
        /\ IsFinite(result.temporal_consistency.min)
        /\ IsFinite(result.temporal_consistency.max)

\* output frame i (1-based) holds the values of the grid m, pixel by pixel
SameGrid(i, m) ==
    /\ result[i].shape = m.shape
    /\ \A p \in IdxSet(m.shape) : result[i].data[p] = m.data[p]

\* C18: moving_average and median_filter with window_size = 1 are the
\* identity: for every non-empty sequence, output[i] equals input[i]
\* elementwise for every i.
C18_WindowOneIdentity ==
    (/\ Ended
     /\ call.method \in {"moving_average", "median_filter"}
     /\ call.window_size = 1
     /\ NumFrames >= 1) =>
        /\ pc = "returned"
        /\ Len(result) = NumFrames
        /\ \A i \in 1 .. NumFrames : SameGrid(i, masks[i])

\* a median of three distinct frames 0, 1, 0.5 returned unchanged
C18_Witness ==
    /\ ReturnedFrom("median_filter")
    /\ call.window_size = 1
    /\ NumFrames = 3
    /\ \E p \in Pixels :
          /\ Pixel(0, p) = Zero /\ Pixel(1, p) = One /\ Pixel(2, p) = Half
          /\ result[1].data[p] = Zero
          /\ result[2].data[p] = One
          /\ result[3].data[p] = Half

\* C19 as stated: exponential_smoothing called with alpha = 1 returns the
\* input sequence unchanged, Output[t] = Input[t] for every t.
C19_AlphaOneIdentity ==
    (Ended /\ call.method = "exponential_smoothing" /\ call.alpha = One) =>
        /\ pc = "returned"
        /\ Len(result) = NumFrames
        /\ \A t \in 1 .. NumFrames : SameGrid(t, masks[t])

\* C19 (amended): exponential_smoothing called with alpha = 1 fails with
\* ValueError before any frame is produced; nothing is returned.
C19_AlphaOneRejected ==
    (Ended /\ call.method = "exponential_smoothing" /\ call.alpha = One) =>
        /\ pc = "raised"
        /\ exc = "ValueError"
        /\ frames = 0
        /\ result = <<>>

C19_Witness ==
    /\ call.method = "exponential_smoothing"
    /\ call.alpha = One
    /\ NumFrames = 3
    /\ masks[1] # masks[2]
    /\ pc = "raised"
    /\ exc = "ValueError"
    /\ result = <<>>

\* every frame of the input is the same mask
ConstantInput == \A t \in 1 .. NumFrames : masks[t] = masks[1]

\* C20: on a non-empty sequence whose frames all equal one mask M,
\* moving_average, median_filter and bilateral_temporal_filter (odd
\* window_size, positive sigmas) return a sequence of the same length in
\* which every frame equals M.
C20_ConstantSequenceFixed ==
    (/\ Ended
     /\ call.method \in WindowedMethods
     /\ ValidParams
     /\ NumFrames >= 1
     /\ ConstantInput) =>
        /\ pc = "returned"
        /\ Len(result) = NumFrames
        /\ \A i \in 1 .. NumFrames : SameGrid(i, masks[1])

\* every pixel of the mask is 0 or 1
IsBinaryMask(m) == \A p \in IdxSet(m.shape) : m.data[p] \in {Zero, One}

\* C21: for every mask M, calculate_iou(M, M) = 1.0 and
\* calculate_dice(M, M) = 1.0; for two binary masks with non-empty, disjoint
\* foregrounds calculate_iou returns 0.0.
C21_SelfAndDisjoint ==
    /\ (Ended /\ call.method \in {"calculate_iou", "calculate_dice"} /\ call.i = call.j) =>
          pc = "returned" /\ result = One
    /\ (/\ Ended
        /\ call.method = "calculate_iou"
        /\ IsBinaryMask(masks[call.i]) /\ IsBinaryMask(masks[call.j])
        /\ Foreground(masks[call.i]) # {} /\ Foreground(masks[call.j]) # {}
        /\ Foreground(masks[call.i]) \cap Foreground(masks[call.j]) = {}) =>
          pc = "returned" /\ result = Zero

\* two binary frames, one pixel each, at different positions
C21_Witness ==
    /\ ReturnedFrom("calculate_iou")
    /\ IsBinaryMask(masks[call.i]) /\ IsBinaryMask(masks[call.j])
    /\ Cardinality(Foreground(masks[call.i])) = 1
    /\ Cardinality(Foreground(masks[call.j])) = 1
    /\ Foreground(masks[call.i]) \cap Foreground(masks[call.j]) = {}
    /\ result = Zero

\* C22: for a sequence S of at least two frames, compare_stability(S, S)
\* yields instability_reduction = 0, iou_improvement = 0, both percent
\* values 0, and equal 'before' and 'after' statistics blocks.
C22_SelfComparison ==
    (/\ Ended
     /\ call.method = "compare_stability"
     /\ call.masks_after = masks
     /\ NumFrames >= 2) =>
        /\ pc = "returned"
        /\ result.improvement.instability_reduction = Zero
        /\ result.improvement.iou_improvement = Zero
        /\ result.improvement.instability_reduction_percent.num = Zero
        /\ Defined(result.improvement.instability_reduction_percent)
        /\ result.improvement.iou_improvement_percent.num = Zero
        /\ Defined(result.improvement.iou_improvement_percent)
        /\ result.instability_before = result.instability_after
        /\ result.iou_before = result.iou_after

\* a flickering sequence compared with itself: mean instability 1/2
C22_Witness ==
    /\ ReturnedFrom("compare_stability")
    /\ call.masks_after = masks
    /\ NumFrames = 3
    /\ result.instability_before.mean = Half
    /\ result.instability_after.mean = Half
    /\ result.improvement.instability_reduction = Zero

\* C23: for every pair of equal-shaped masks A and B,
\* calculate_dice(A, B) >= calculate_iou(A, B), the cases of one or two
\* empty binarized masks included.
C23_DiceAtLeastIou ==
    (Ended /\ call.method = "calculate_dice") =>
        /\ pc = "returned"
        /\ FLe(calculate_iou(masks[call.i], masks[call.j]), result)

\* partial overlap: iou 1/2 below dice 2/3
C23_Witness ==
    /\ ReturnedFrom("calculate_dice")
    /\ calculate_iou(masks[call.i], masks[call.j]) = Half
    /\ result = Frac(2, 3)

(***************************************************************************)
(* Object identity.  An input mask carries the field id, the number of its *)
(* buffer; an array built by numpy during a call (np.mean, np.median,      *)
(* arithmetic, a comparison, .copy(), .astype()) is a new buffer and       *)
(* carries none.  No function of the two modules assigns into an array or  *)
(* into its argument list.                                                 *)
(***************************************************************************)
MaxObjects == 2

ObjId(arr) == IF "id" \in DOMAIN arr THEN arr.id ELSE 0

\* pm > threshold: a new boolean array
greater_than(arr, c) ==
    [dtype |-> "bool", shape |-> arr.shape,
     data |-> [idx \in IdxSet(arr.shape) |->
                  IF FLt(c, arr.data[idx]) THEN One ELSE Zero]]

\* [(pm > threshold).astype(np.uint8) for pm in probability_maps]
convert_to_binary(probability_maps, threshold) ==
    IF probability_maps = <<>> THEN Returned(<<>>)
    ELSE Returned([k \in 1 .. Len(probability_maps) |->
                      astype(greater_than(probability_maps[k], threshold), "uint8")])

Thresholds == {Zero, Half}

\* mask k of the list lives in buffer k
WithIds(ms) ==
    [k \in 1 .. Len(ms) |->
        [id |-> k, dtype |-> ms[k].dtype, shape |-> ms[k].shape, data |-> ms[k].data]]

ObjectSequences ==
    {<<>>} \cup {WithIds(ms) : ms \in UNION {[1 .. n -> Masks(<<1, 1>>)] : n \in 1 .. MaxObjects}}

InitObjects ==
    /\ masks \in ObjectSequences
    /\ call = DefaultCall
    /\ pc = "idle"
    /\ result = <<>>
    /\ exc = "none"
    /\ frames = 0
    /\ ServerIdle

CallConvertToBinary ==
    /\ pc = "idle"
    /\ \E threshold \in Thresholds :
          /\ call' = [method |-> "convert_to_binary", threshold |-> threshold]
          /\ Finish(convert_to_binary(masks, threshold))

NextObjects ==
    \/ Next
    \/ CallApplyMethod
    \/ CallConvertToBinary
    \/ NextMetrics

SpecObjects == InitObjects /\ [][NextObjects]_vars

\* the calls whose result is a list of frames
FrameMethods ==
    {"moving_average", "median_filter", "exponential_smoothing",
     "bilateral_temporal", "convert_to_binary"}

\* no returned frame lives in the buffer of an input mask
NoSharedFrame ==
    (pc = "returned" /\ call.method \in FrameMethods) =>
        \A i \in 1 .. Len(result), j \in 1 .. NumFrames :
            ObjId(result[i]) # ObjId(masks[j])

\* C24: no operation modifies its inputs: over any call, returning or
\* raising, of a smoothing operation, apply_method, convert_to_binary,
\* calculate_iou, calculate_dice, the series functions, compare_stability
\* or calculate_mask_statistics, the input list and every input mask stay
\* as they were, and no returned frame is the same object as an input frame.
C24_InputsUntouched == [][masks' = masks /\ NoSharedFrame']_vars

\* the first output frame of exponential_smoothing has the values of the
\* first input frame and is another object
C24_Witness ==
    /\ ReturnedFrom("exponential_smoothing")
    /\ NumFrames = 2
    /\ ObjId(masks[1]) = 1
    /\ result[1].data = masks[1].data
    /\ ObjId(result[1]) = 0

(***************************************************************************)
(* The four smoothing operations on the sequences of fewer than MaxFrames  *)
(* frames: the properties that relate two calls are checked here.          *)
(***************************************************************************)
SmallSequences == {ms \in MaskSequences : Len(ms) < MaxFrames}

InitSmall ==
    /\ masks \in SmallSequences
    /\ call = DefaultCall
    /\ pc = "idle"
    /\ result = <<>>
    /\ exc = "none"
    /\ frames = 0
    /\ ServerIdle

SpecSmall == InitSmall /\ [][Next]_vars

\* sequences a and b both have frames 0..t and agree on them
AgreeUpTo(a, b, t) ==
    /\ Len(a) > t /\ Len(b) > t
    /\ \A k \in 1 .. (t + 1) : a[k] = b[k]

\* the call of the state made again on another input sequence
SameCallOn(ms) ==
    IF call.method = "moving_average" THEN moving_average(ms, call.window_size)
    ELSE IF call.method = "median_filter" THEN median_filter(ms, call.window_size)
    ELSE IF call.method = "exponential_smoothing" THEN exponential_smoothing(ms, call.alpha)
    ELSE bilateral_temporal_filter(ms, call.window_size,
                                   call.sigma_temporal, call.sigma_intensity)

\* the two-frame sequences of 1 x 1 masks
ShortSequences == [1 .. 2 -> Masks(<<1, 1>>)]

\* C25: exponential_smoothing is causal, and the only causal filter of the
\* four: for two input sequences that agree on frames 0..t its outputs agree
\* on frames 0..t; for moving_average, median_filter and
\* bilateral_temporal_filter with window_size >= 3 there are two sequences
\* agreeing on frames 0..t whose outputs differ at frame t.
C25_OnlyExponentialCausal ==
    /\ (ReturnedFrom("exponential_smoothing") /\ NumFrames >= 1) =>
          \A other \in SmallSequences :
             \A t \in 0 .. (Min(NumFrames, Len(other)) - 1) :
                AgreeUpTo(masks, other, t) =>
                   \A k \in 1 .. (t + 1) : SameCallOn(other).out[k] = result[k]
    /\ (/\ pc = "returned"
        /\ call.method \in WindowedMethods
        /\ ValidParams
        /\ call.window_size >= 3) =>
          \E a \in ShortSequences, b \in ShortSequences :
             /\ AgreeUpTo(a, b, 0)
             /\ SameCallOn(a).out[1] # SameCallOn(b).out[1]

\* a three-frame input and a second input that differs from it in the last
\* frame only: the first two output frames are the same
C25_Witness ==
    /\ ReturnedFrom("exponential_smoothing")
    /\ NumFrames = 3
    /\ masks[3] # masks[1]
    /\ LET other == <<masks[1], masks[2], masks[1]>>
       IN  /\ AgreeUpTo(masks, other, 1)
           /\ SameCallOn(other).out[1] = result[1]
           /\ SameCallOn(other).out[2] = result[2]
           /\ SameCallOn(other).out[3] # result[3]

(***************************************************************************)
(* The loop bodies of the three windowed filters, one output frame each,   *)
(* and workers that run them one per frame index in any order.  A body     *)
(* reads masks, i and the parameters and writes its own slot only.         *)
(***************************************************************************)
\* lines 37-44 for one i
moving_average_frame(ms, half_window, i) ==
    avg_mask(Slice(ms, window_start(i, half_window),
                   window_end(Len(ms), i, half_window)))

\* lines 73-80 for one i
median_filter_frame(ms, half_window, i) ==
    median_mask(Slice(ms, window_start(i, half_window),
                      window_end(Len(ms), i, half_window)))

\* lines 150-185 for one i
bilateral_frame(ms, half_window, sigma_temporal, sigma_intensity, i) ==
    LET start == window_start(i, half_window)
        end   == window_end(Len(ms), i, half_window)
        wlist == weights_list(ms, i, start, end, sigma_temporal, sigma_intensity)
    IN  astype(weighted_average(wlist, Slice(ms, start, end)), "float32")

\* the body of the loop of the state's call, for frame index i
frame_of_call(i) ==
    IF call.method = "moving_average"
    THEN moving_average_frame(masks, call.window_size \div 2, i)
    ELSE IF call.method = "median_filter"
    THEN median_filter_frame(masks, call.window_size \div 2, i)
    ELSE bilateral_frame(masks, call.window_size \div 2,
                         call.sigma_temporal, call.sigma_intensity, i)

OddWindowSizes == {w \in WindowSizes : w % 2 = 1}

\* the valid pairs of SigmaPairs and the default pair of the signature
PositiveSigmaPairs ==
    {sp \in SigmaPairs : sp[1].n > 0 /\ sp[2].n > 0}
        \cup {<<DefaultCall.sigma_temporal, DefaultCall.sigma_intensity>>}

\* the sequences of single-pixel masks
UnitSequences == {ms \in SmallSequences : ms = <<>> \/ ms[1].shape = <<1, 1>>}

InitUnit ==
    /\ masks \in UnitSequences
    /\ call = DefaultCall
    /\ pc = "idle"
    /\ result = <<>>
    /\ exc = "none"
    /\ frames = 0
    /\ ServerIdle

\* the call begins: parameters are bound, no frame is computed yet
StartWorkers ==
    /\ pc = "idle"
    /\ \E method \in WindowedMethods, window_size \in OddWindowSizes,
          sigmas \in PositiveSigmaPairs :
          /\ method # "bilateral_temporal" =>
                sigmas = <<DefaultCall.sigma_temporal, DefaultCall.sigma_intensity>>
          /\ call' = [DefaultCall EXCEPT !.method = method,
                                      !.window_size = window_size,
                                      !.sigma_temporal = sigmas[1],
                                      !.sigma_intensity = sigmas[2]]
    /\ pc' = "running"
    /\ UNCHANGED <<masks, result, exc, frames, server>>

\* a worker computes the frame of one index not computed yet
WorkerFrame ==
    /\ pc = "running"
    /\ \E i \in 0 .. (Len(masks) - 1) :
          /\ (i + 1) \notin DOMAIN result
          /\ result' = [k \in DOMAIN result \cup {i + 1} |->
                           IF k = i + 1 THEN frame_of_call(i) ELSE result[k]]
    /\ frames' = frames + 1
    /\ UNCHANGED <<masks, call, pc, exc, server>>

\* every frame is computed: the list is returned
JoinWorkers ==
    /\ pc = "running"
    /\ DOMAIN result = 1 .. Len(masks)
    /\ pc' = "returned"
    /\ UNCHANGED <<masks, call, result, exc, frames, server>>

NextWorkers ==
    \/ StartWorkers
    \/ WorkerFrame
    \/ JoinWorkers

SpecWorkers == InitUnit /\ [][NextWorkers]_vars

\* input sequence other has the frames of masks inside the window of index i
SameWindow(other, i) ==
    /\ Len(other) = NumFrames
    /\ \A j \in ClippedWindow(i) : other[j + 1] = masks[j + 1]

\* C26: in moving_average, median_filter and bilateral_temporal_filter,
\* output frame i is a function only of the input frames inside its clipped
\* window and of no previously produced output frame; computing the frames
\* in any order, by workers one per frame index in any interleaving, yields
\* the output sequence of the sequential loop.
C26_FramesIndependent ==
    pc = "returned" =>
          /\ result = SameCallOn(masks).out
          /\ \A k \in 1 .. NumFrames :
                \A other \in UnitSequences :
                   SameWindow(other, k - 1) => SameCallOn(other).out[k] = result[k]

\* the last of three frames is computed first, with a window that leaves
\* out the first input frame
C26_Witness ==
    /\ pc = "running"
    /\ NumFrames = 3
    /\ call.window_size = 3
    /\ DOMAIN result = {3}
    /\ masks[1] # masks[2] /\ masks[2] # masks[3]
    /\ result[3] = SameCallOn(<<masks[2], masks[2], masks[3]>>).out[3]

(***************************************************************************)
(* Rounded arithmetic.  The metrics compute in binary floating point       *)
(* (float64: 53 significant bits, round to nearest, ties to even).  The    *)
(* same arithmetic is modelled with MantissaBits significant bits, for     *)
(* values below 2^(MantissaBits - 1).                                      *)
(***************************************************************************)
MantissaBits == 6

MaxFloatFrames == 3

RECURSIVE Pow2(_)
Pow2(k) == IF k = 0 THEN 1 ELSE 2 * Pow2(k - 1)

\* the k with 2^(MantissaBits-1) <= (n/d) * 2^k, least from k0 on; n, d > 0
RECURSIVE ScaleOf(_, _, _)
ScaleOf(n, d, k) ==
    IF n * Pow2(k) >= Pow2(MantissaBits - 1) * d THEN k ELSE ScaleOf(n, d, k + 1)

\* n/d rounded to the nearest integer, ties to even; n >= 0, d > 0
RoundHalfEven(n, d) ==
    LET q == n \div d
        r == n % d
    IN  IF 2 * r > d \/ (2 * r = d /\ q % 2 = 1) THEN q + 1 ELSE q

\* the floating-point number nearest to the exact value x
Fl(x) ==
    IF x.d = 0 \/ x.n = 0 THEN x
    ELSE LET a == Abs(x.n)
             k == ScaleOf(a, x.d, 0)
         IN  Frac(Sign(x.n) * RoundHalfEven(a * Pow2(k), x.d), Pow2(k))

\* float(intersection / union)
float_iou(mask1, mask2) == Fl(calculate_iou(mask1, mask2))

float_consistency(ms) ==
    IF Len(ms) < 2 THEN <<>>
    ELSE [t \in 1 .. (Len(ms) - 1) |-> float_iou(ms[t], ms[t + 1])]

\* (variant) every frame compared with the first frame
float_instability_from_first(ms) ==
    IF Len(ms) < 2 THEN <<>>
    ELSE [t \in 1 .. (Len(ms) - 1) |-> Fl(FSub(One, float_iou(ms[1], ms[t + 1])))]

\* instability = 1.0 - iou
float_instability(ms) ==
    IF Len(ms) < 2 THEN <<>>
    ELSE [t \in 1 .. (Len(ms) - 1) |-> Fl(FSub(One, float_iou(ms[t], ms[t + 1])))]

\* np.add.reduce of fewer than 8 values: left to right
RECURSIVE float_sum(_, _)
float_sum(xs, acc) ==
    IF xs = <<>> THEN acc ELSE float_sum(Tail(xs), Fl(FAdd(acc, Head(xs))))

\* np.mean: the sum divided by the count
float_mean(xs) == Fl(FDiv(float_sum(xs, Zero), Frac(Len(xs), 1)))

\* compare_stability in rounded arithmetic: the series, their means, and the
\* two differences of 'improvement'
compare_stability_float(masks_before, masks_after) ==
    LET instability_before == float_instability(masks_before)
        instability_after  == float_instability(masks_after)
        iou_before         == float_consistency(masks_before)
        iou_after          == float_consistency(masks_after)
    IN  IF Len(instability_before) = 0 \/ Len(instability_after) = 0
        THEN Raised("ValueError", 0)
        ELSE ReturnedValue(
               [instability_before |-> [mean |-> float_mean(instability_before),
                                        scores |-> instability_before],
                instability_after  |-> [mean |-> float_mean(instability_after),
                                        scores |-> instability_after],
                iou_before         |-> [mean |-> float_mean(iou_before),
                                        scores |-> iou_before],
                iou_after          |-> [mean |-> float_mean(iou_after),
                                        scores |-> iou_after],
                improvement |->
                   [instability_reduction |->
                       Fl(FSub(float_mean(instability_before),
                               float_mean(instability_after))),
                    iou_improvement |->
                       Fl(FSub(float_mean(iou_after), float_mean(iou_before)))]])

\* three masks of three pixels: pairwise IoU 0, 1/3, 2/3 and 1
FloatMasks ==
    {[dtype |-> "uint8", shape |-> <<1, 3>>,
      data |-> [idx \in IdxSet(<<1, 3>>) |-> IF idx[2] \in on THEN One ELSE Zero]] :
        on \in {{0}, {1, 2}, {0, 1, 2}}}

FloatSequences == UNION {[1 .. n -> FloatMasks] : n \in 1 .. MaxFloatFrames}

InitFloat ==
    /\ masks \in FloatSequences
    /\ call = DefaultCall
    /\ pc = "idle"
    /\ result = <<>>
    /\ exc = "none"
    /\ frames = 0
    /\ ServerIdle

CallCompareStabilityFloat ==
    /\ pc = "idle"
    /\ \E after \in FloatSequences :
          /\ Len(after) = Len(masks)
          /\ call' = [method |-> "compare_stability", masks_after |-> after]
          /\ Finish(compare_stability_float(masks, after))

SpecFloat == InitFloat /\ [][CallCompareStabilityFloat]_vars

\* the spacing of the floating-point numbers just above 1
MachineEpsilon == Frac(1, Pow2(MantissaBits - 1))

InUnitInterval(x) == FLe(Zero, x) /\ FLe(x, One)

\* element t of each instability series plus element t of the matching IoU
\* series is 1, and every element lies in [0, 1]
SeriesComplementary ==
    /\ \A t \in 1 .. Len(result.iou_before.scores) :
          /\ Fl(FAdd(result.instability_before.scores[t],
                     result.iou_before.scores[t])) = One
          /\ InUnitInterval(result.instability_before.scores[t])
          /\ InUnitInterval(result.iou_before.scores[t])
    /\ \A t \in 1 .. Len(result.iou_after.scores) :
          /\ Fl(FAdd(result.instability_after.scores[t],
                     result.iou_after.scores[t])) = One
          /\ InUnitInterval(result.instability_after.scores[t])
          /\ InUnitInterval(result.iou_after.scores[t])

\* C27 as stated: in every report returned by compare_stability,
\* improvement.instability_reduction equals improvement.iou_improvement,
\* element t of each instability series plus element t of the matching IoU
\* series equals 1, and every series element is in [0, 1].
C27_ReductionEqualsImprovement ==
    ReturnedFrom("compare_stability") =>
        /\ result.improvement.instability_reduction
              = result.improvement.iou_improvement
        /\ SeriesComplementary

\* C27 (amended): instability_reduction and iou_improvement agree up to
\* rounding, within 2 N machine epsilons for N-frame sequences; element t of
\* each instability series plus element t of the matching IoU series equals
\* 1, and every series element is in [0, 1].
C27_EqualUpToRounding ==
    ReturnedFrom("compare_stability") =>
        /\ FLe(FAbs(FSub(result.improvement.instability_reduction,
                         result.improvement.iou_improvement)),
               FMul(Frac(2 * NumFrames, 1), MachineEpsilon))
        /\ SeriesComplementary

\* 'before' with IoU 0, 'after' with IoU 1/3: 1 - (1 - 1/3) is not 1/3
C27_Witness ==
    /\ ReturnedFrom("compare_stability")
    /\ result.iou_before.scores = <<Zero>>
    /\ result.iou_after.scores = <<Fl(Frac(1, 3))>>
    /\ result.improvement.iou_improvement = Fl(Frac(1, 3))
    /\ result.improvement.instability_reduction # Fl(Frac(1, 3))

(***************************************************************************)
(* moving_average, median_filter and exponential_smoothing in rounded      *)
(* arithmetic: every numpy operation on float32 arrays rounds its result   *)
(* (modelled with MantissaBits significant bits, as above).                *)
(***************************************************************************)
\* the array arr with every value rounded
RoundArr(arr) ==
    [dtype |-> arr.dtype, shape |-> arr.shape,
     data |-> [idx \in IdxSet(arr.shape) |-> Fl(arr.data[idx])]]

\* the sum along axis 0, frame after frame
RECURSIVE sum_frames_rounded(_, _)
sum_frames_rounded(window_masks, acc) ==
    IF window_masks = <<>> THEN acc
    ELSE sum_frames_rounded(Tail(window_masks),
                            RoundArr(BroadcastAdd(acc, Head(window_masks))))

\* np.mean(window_masks, axis=0).astype(np.float32), window not empty
avg_mask_rounded(window_masks) ==
    astype(RoundArr(ScalarMul(Frac(1, Len(window_masks)),
                              sum_frames_rounded(Tail(window_masks),
                                                 Head(window_masks)))),
           "float32")

\* np.median(window_masks, axis=0).astype(np.float32)
median_mask_rounded(window_masks) == RoundArr(median_mask(window_masks))

moving_average_rounded(ms, window_size) ==
    IF window_size % 2 = 0 THEN Raised("ValueError", 0)
    ELSE IF ms = <<>> THEN Returned(<<>>)
    ELSE Returned([k \in 1 .. Len(ms) |->
            avg_mask_rounded(Slice(ms, window_start(k - 1, window_size \div 2),
                                   window_end(Len(ms), k - 1, window_size \div 2)))])

median_filter_rounded(ms, window_size) ==
    IF window_size % 2 = 0 THEN Raised("ValueError", 0)
    ELSE IF ms = <<>> THEN Returned(<<>>)
    ELSE Returned([k \in 1 .. Len(ms) |->
            median_mask_rounded(Slice(ms, window_start(k - 1, window_size \div 2),
                                      window_end(Len(ms), k - 1, window_size \div 2)))])

\* (variant) the previous value taken with weight 1
smooth_step_rounded_gain(alpha, mask, smoothed) ==
    RoundArr(BroadcastAdd(RoundArr(ScalarMul(Fl(alpha), mask)), smoothed))

\* smoothed = alpha * masks[i] + (1 - alpha) * smoothed, on float32 arrays
smooth_step_rounded(alpha, mask, smoothed) ==
    RoundArr(BroadcastAdd(RoundArr(ScalarMul(Fl(alpha), mask)),
                          RoundArr(ScalarMul(Fl(FSub(One, alpha)), smoothed))))

RECURSIVE exponential_smoothing_loop_rounded(_, _, _, _, _)
exponential_smoothing_loop_rounded(ms, alpha, i, smoothed, smoothed_masks) ==
    IF i >= Len(ms) THEN Returned(smoothed_masks)
    ELSE LET next == smooth_step_rounded(alpha, ms[i + 1], smoothed)
         IN  exponential_smoothing_loop_rounded(ms, alpha, i + 1, next,
                    Append(smoothed_masks, astype(next, "float32")))

exponential_smoothing_rounded(ms, alpha) ==
    IF alpha_invalid(alpha) THEN Raised("ValueError", 0)
    ELSE IF ms = <<>> THEN Raised("IndexError", 0)
    ELSE LET smoothed == copy(ms[1])
         IN  exponential_smoothing_loop_rounded(ms, alpha, 1, smoothed, <<smoothed>>)

\* float32 pixel values in [0, 1]
RoundedPixelVals == {Zero, Fl(Frac(4, 5)), Fl(Frac(9, 10)), One}

RoundedMasks ==
    {[dtype |-> "float32", shape |-> <<1, 1>>, data |-> d] :
        d \in [IdxSet(<<1, 1>>) -> RoundedPixelVals]}

RoundedSequences == UNION {[1 .. n -> RoundedMasks] : n \in 1 .. MaxFloatFrames}

\* the invalid values of Alphas, 1/4, and the default 0.3
RoundedAlphas == (Alphas \ {Frac(1, 2)}) \cup {Frac(3, 10)}

InitRounded ==
    /\ masks \in RoundedSequences
    /\ call = DefaultCall
    /\ pc = "idle"
    /\ result = <<>>
    /\ exc = "none"
    /\ frames = 0
    /\ ServerIdle

CallMovingAverageRounded ==
    /\ pc = "idle"
    /\ \E window_size \in WindowSizes :
          /\ call' = [DefaultCall EXCEPT !.method = "moving_average",
                                         !.window_size = window_size]
          /\ Finish(moving_average_rounded(masks, window_size))

CallMedianFilterRounded ==
    /\ pc = "idle"
    /\ \E window_size \in WindowSizes :
          /\ call' = [DefaultCall EXCEPT !.method = "median_filter",
                                         !.window_size = window_size]
          /\ Finish(median_filter_rounded(masks, window_size))

CallExponentialSmoothingRounded ==
    /\ pc = "idle"
    /\ \E alpha \in RoundedAlphas :
          /\ call' = [DefaultCall EXCEPT !.method = "exponential_smoothing",
                                         !.alpha = alpha]
          /\ Finish(exponential_smoothing_rounded(masks, alpha))

NextRounded ==
    \/ CallMovingAverageRounded
    \/ CallMedianFilterRounded
    \/ CallExponentialSmoothingRounded

SpecRounded == InitRounded /\ [][NextRounded]_vars

\* the least and the greatest of a non-empty finite set of values
LeastOf(S) == CHOOSE x \in S : \A y \in S : FLe(x, y)

GreatestOf(S) == CHOOSE x \in S : \A y \in S : FLe(y, x)

\* the values of pixel p over the frames J, and all the input values
ValuesOver(J, p) == {Pixel(j, p) : j \in J}

InputValues == UNION {ValuesOver(0 .. (NumFrames - 1), p) : p \in Pixels}

\* lo - tol <= x <= hi + tol
Within(x, lo, hi, tol) == FLe(FSub(lo, tol), x) /\ FLe(x, FAdd(hi, tol))

\* k machine epsilons
Epsilons(k) == FMul(Frac(k, 1), MachineEpsilon)

RangeCase ==
    /\ pc = "returned"
    /\ call.method \in {"moving_average", "median_filter", "exponential_smoothing"}
    /\ ValidParams
    /\ NumFrames >= 1

MaxTasks == 2

ArrayKeys == {"frames", "masks_before", "masks_after", "binary_masks"}

\* save_job_state: a copy of the dict without the array keys
save_job_state(job) == [job EXCEPT !.keys = job.keys \ ArrayKeys]

\* load_job_state: the dict read back, or no job when state.json is absent
load_job_state(state) == state

Task(kind) == [kind |-> kind, pc |-> "queued"]

Remove(seq, k) == [i \in 1 .. Len(seq) - 1 |-> IF i < k THEN seq[i] ELSE seq[i + 1]]

Respond(endpoint, code) ==
    response' = [endpoint |-> endpoint, code |-> code]

ModuleIdle == UNCHANGED <<masks, call, pc, result, exc, frames>>

\* the except branch of both tasks: jobs[job_id]['status'] = 'error'
task_failed(job, message) ==
    [job EXCEPT !.status = "error", !.message = message]

\* POST /api/upload: a new job id; here the one job of the model
upload_video ==
    /\ jobs = NoJob
    /\ disk = NoJob
    /\ jobs' = [status |-> "uploaded", keys |-> {}, message |-> "uploaded"]
    /\ disk' = save_job_state(jobs')
    /\ Respond("upload", 200)
    /\ UNCHANGED tasks
    /\ ModuleIdle

\* POST /api/segment
segment_video(known_class) ==
    /\ IF jobs = NoJob
       THEN Respond("segment", 404) /\ UNCHANGED tasks
       ELSE IF jobs.status \notin {"uploaded", "segmented"}
       THEN Respond("segment", 400) /\ UNCHANGED tasks
       ELSE IF ~known_class
       THEN Respond("segment", 400) /\ UNCHANGED tasks
       ELSE /\ Len(tasks) < MaxTasks
            /\ tasks' = Append(tasks, Task("segmentation"))
            /\ Respond("segment", 200)
    /\ UNCHANGED <<jobs, disk>>
    /\ ModuleIdle

\* POST /api/stabilize
stabilize_masks(valid_method) ==
    /\ IF jobs = NoJob
       THEN Respond("stabilize", 404) /\ UNCHANGED tasks
       ELSE IF jobs.status \notin {"segmented", "completed"}
       THEN Respond("stabilize", 400) /\ UNCHANGED tasks
       ELSE IF ~valid_method
       THEN Respond("stabilize", 400) /\ UNCHANGED tasks
       ELSE /\ Len(tasks) < MaxTasks
            /\ tasks' = Append(tasks, Task("stabilization"))
            /\ Respond("stabilize", 200)
    /\ UNCHANGED <<jobs, disk>>
    /\ ModuleIdle

\* GET /api/status, /api/results, /api/metrics: a job that is not in the
\* table is loaded from state.json first
get_job(endpoint) ==
    /\ IF jobs = NoJob /\ disk = NoJob
       THEN Respond(endpoint, 404) /\ UNCHANGED jobs
       ELSE /\ jobs' = IF jobs = NoJob THEN load_job_state(disk) ELSE jobs
            /\ IF endpoint = "metrics" /\ "metrics" \notin jobs'.keys
               THEN Respond(endpoint, 400)
               ELSE Respond(endpoint, 200)
    /\ UNCHANGED <<disk, tasks>>
    /\ ModuleIdle

ReadEndpoints == {"status", "results", "metrics"}

\* the server process ends and a new one starts: `jobs = {}` again, the
\* tasks of the old process are gone, the files stay
Restart ==
    /\ jobs' = NoJob
    /\ tasks' = <<>>
    /\ response' = NoResponse
    /\ UNCHANGED disk
    /\ ModuleIdle

\* first statements of a task: job = jobs[job_id]; job['status'] = ...
StartTask(k) ==
    /\ tasks[k].pc = "queued"
    /\ IF jobs = NoJob
       THEN UNCHANGED jobs /\ tasks' = Remove(tasks, k)
       ELSE /\ jobs' = [jobs EXCEPT !.status =
                            IF tasks[k].kind = "segmentation"
                            THEN "segmenting" ELSE "stabilizing"]
            /\ tasks' = [tasks EXCEPT ![k].pc = "started"]
    /\ UNCHANGED <<disk, response>>
    /\ ModuleIdle

\* process_segmentation between the two status assignments; fails_at is
\* the call that raises, if one does
process_segmentation_work(job, fails_at) ==
    IF fails_at = "extract_frames"
    THEN task_failed(job, "extract_frames")
    ELSE IF fails_at = "segment_video"
    THEN task_failed([job EXCEPT !.keys = @ \cup {"frames"}], "segment_video")
    ELSE [job EXCEPT !.keys = @ \cup {"frames", "masks_before", "binary_masks"}]

\* process_stabilization between the two status assignments
process_stabilization_work(job, fails_at) ==
    IF "masks_before" \notin job.keys
    THEN task_failed(job, "KeyError: 'masks_before'")
    ELSE IF fails_at = "apply_method"
    THEN task_failed(job, "apply_method")
    ELSE IF "frames" \notin job.keys
    THEN task_failed([job EXCEPT !.keys = @ \cup {"masks_after", "metrics"}],
                     "KeyError: 'frames'")
    ELSE [job EXCEPT !.keys = @ \cup {"masks_after", "metrics"}]

SegmentationFailures == {"none", "extract_frames", "segment_video"}

StabilizationFailures == {"none", "apply_method"}

WorkTask(k) ==
    /\ tasks[k].pc = "started"
    /\ \E fails_at \in IF tasks[k].kind = "segmentation"
                       THEN SegmentationFailures ELSE StabilizationFailures :
          jobs' = IF tasks[k].kind = "segmentation"
                  THEN process_segmentation_work(jobs, fails_at)
                  ELSE process_stabilization_work(jobs, fails_at)
    /\ tasks' = IF jobs'.status = "error"
                THEN Remove(tasks, k)
                ELSE [tasks EXCEPT ![k].pc = "worked"]
    /\ UNCHANGED <<disk, response>>
    /\ ModuleIdle

\* last statements of a task: the final status, then save_job_state
FinishTask(k) ==
    /\ tasks[k].pc = "worked"
    /\ jobs' = IF tasks[k].kind = "segmentation"
               THEN [jobs EXCEPT !.status = "segmented",
                                 !.message = "Segmentation complete"]
               ELSE [jobs EXCEPT !.status = "completed",
                                 !.message = "Stabilization complete",
                                 !.keys = @ \cup {"stabilization_method"}]
    /\ disk' = save_job_state(jobs')
    /\ tasks' = Remove(tasks, k)
    /\ UNCHANGED response
    /\ ModuleIdle

InitJobs ==
    /\ masks = <<>>
    /\ call = DefaultCall
    /\ pc = "idle"
    /\ result = <<>>
    /\ exc = "none"
    /\ frames = 0
    /\ ServerIdle

NextJobs ==
    \/ upload_video
    \/ \E known_class \in BOOLEAN : segment_video(known_class)
    \/ \E valid_method \in BOOLEAN : stabilize_masks(valid_method)
    \/ \E endpoint \in ReadEndpoints : get_job(endpoint)
    \/ Restart
    \/ \E k \in 1 .. Len(tasks) : StartTask(k)
    \/ \E k \in 1 .. Len(tasks) : WorkTask(k)
    \/ \E k \in 1 .. Len(tasks) : FinishTask(k)

SpecJobs == InitJobs /\ [][NextJobs]_vars

(***************************************************************************)
(* Claims C29 and C30: the job lifecycle.                                  *)
(***************************************************************************)
Pending(kind) == {k \in 1 .. Len(tasks) : tasks[k].kind = kind}

\* C29: whenever an accepted POST /api/stabilize has its task
\* process_stabilization running (status set, about to read the masks), the
\* job in memory holds 'masks_before', after any sequence of uploads,
\* segment and stabilize requests, status/results/metrics reads (which may
\* reload the job from state.json) and server restarts.
C29_MasksBeforePresent ==
    \A k \in Pending("stabilization") :
        tasks[k].pc = "started" => "masks_before" \in jobs.keys

\* C30: for one job at most one background task is queued or running at a
\* time: a POST /api/segment or /api/stabilize that arrives between the
\* acceptance of an earlier one and the end of its task is rejected, so it
\* adds no second task.
C30_SingleTask ==
    Len(tasks) <= 1


====
